---- MODULE Spec2Model ----
(***************************************************************************)
(* A model of the XML-to-JSON tree builder (src/src/utils/xml_parser.rs)   *)
(* and of the accessor layer (src/src/response/parse_value.rs,             *)
(* src/src/response/paging.rs) of the namecheap client.                    *)
(*                                                                         *)
(* A Rust String is a sequence of characters, a character a one-character  *)
(* TLA+ string.  A serde_json Value is a tagged record [t, v].             *)
(*                                                                         *)
(* Specifications:                                                         *)
(*   Spec        the tree builder consuming events of the event source     *)
(*   SpecSnake   convert_camel_to_snake applied to bounded identifiers     *)
(*   SpecAccess  parse_string / parse_bool / parse_i64 on bounded nodes    *)
(*   SpecPaging  extract_pagination_info on bounded paging blocks          *)
(*   SpecStream  the tree builder on every bounded finite event stream,    *)
(*               well-formed or not (FairSpecStream: the loop keeps going) *)
(*   SpecPair    two invocations of the tree builder, steps interleaved    *)
(***************************************************************************)
EXTENDS Integers, Sequences, FiniteSets, TLC

VARIABLES
    reader,         \* xml_parser.rs:48  the events the iterator has not yielded yet
    stack,          \* xml_parser.rs:50  Vec<(String, Map<String, Value>)>
    current_text,   \* xml_parser.rs:51  the pending-text buffer
    pc,             \* where the running function is: "run"/"call", then its outcome
    result,         \* the value parse_xml_to_json returned
    hist,           \* history: per open frame, what the event source delivered to it
    last,           \* history: the element closed by the event just consumed, if any
    seen,           \* history: how many events of each kind were consumed
    args,           \* the arguments of the pure function under check
    ret             \* its return value

vars == <<reader, stack, current_text, pc, result, hist, last, seen, args, ret>>

(***************************************************************************)
(* Bounds of the model.                                                    *)
(***************************************************************************)
MaxDepth == 2       \* open frames at a time
MaxElems == 4       \* start-element events per document
MaxChars == 1       \* characters events per document
MaxAttrElems == 1   \* start-element events that carry attributes per document
MaxNameLen == 4     \* characters of a generated identifier
MaxNumLen == 2      \* characters of a generated numeric string
IntBits == 7        \* width the model gives Rust's i64

(***************************************************************************)
(* Option<T>: None is the empty sequence, Some(x) the one-element sequence.*)
(***************************************************************************)
None == <<>>
Some(x) == <<x>>
IsSome(o) == o # <<>>
Unwrap(o) == o[1]
UnwrapOr(o, d) == IF IsSome(o) THEN o[1] ELSE d

(***************************************************************************)
(* Characters.                                                             *)
(***************************************************************************)
AsciiUpper ==
    {"A","B","C","D","E","F","G","H","I","J","K","L","M",
     "N","O","P","Q","R","S","T","U","V","W","X","Y","Z"}

\* A non-ASCII uppercase character (char::is_uppercase is Unicode-aware).
EAcute == "U+00C9"

NonAscii == {EAcute}

\* char::is_uppercase, xml_parser.rs:13
is_uppercase(c) == c \in AsciiUpper \cup {EAcute}

LowerOf ==
    [c \in AsciiUpper |->
        CASE c = "A" -> "a" [] c = "B" -> "b" [] c = "C" -> "c" [] c = "D" -> "d"
          [] c = "E" -> "e" [] c = "F" -> "f" [] c = "G" -> "g" [] c = "H" -> "h"
          [] c = "I" -> "i" [] c = "J" -> "j" [] c = "K" -> "k" [] c = "L" -> "l"
          [] c = "M" -> "m" [] c = "N" -> "n" [] c = "O" -> "o" [] c = "P" -> "p"
          [] c = "Q" -> "q" [] c = "R" -> "r" [] c = "S" -> "s" [] c = "T" -> "t"
          [] c = "U" -> "u" [] c = "V" -> "v" [] c = "W" -> "w" [] c = "X" -> "x"
          [] c = "Y" -> "y" [] c = "Z" -> "z"]

\* char::to_ascii_lowercase, xml_parser.rs:17: only ASCII letters change
to_ascii_lowercase(c) == IF c \in AsciiUpper THEN LowerOf[c] ELSE c

\* char::is_whitespace, as str::trim uses it
is_whitespace(c) == c \in {" ", "\n", "\t"}

\* All strings over alphabet A of at most n characters.
StringsUpTo(A, n) == UNION {[1..k -> A] : k \in 0..n}

(***************************************************************************)
(* str::trim, xml_parser.rs:70                                             *)
(***************************************************************************)
RECURSIVE trim_start(_)
trim_start(s) ==
    IF s # <<>> /\ is_whitespace(Head(s)) THEN trim_start(Tail(s)) ELSE s

RECURSIVE trim_end(_)
trim_end(s) ==
    IF s # <<>> /\ is_whitespace(s[Len(s)])
    THEN trim_end(SubSeq(s, 1, Len(s) - 1))
    ELSE s

trim(s) == trim_end(trim_start(s))

(***************************************************************************)
(* convert_camel_to_snake, xml_parser.rs:8-26: the loop over name.chars()  *)
(* with its two locals, result and prev_was_upper.                         *)
(***************************************************************************)
RECURSIVE snake_loop(_, _, _, _)
snake_loop(name, i, res, prev_was_upper) ==
    IF i > Len(name) THEN res
    ELSE LET c == name[i] IN
         IF is_uppercase(c)
         THEN snake_loop(name, i + 1,
                         Append(IF res # <<>> /\ ~prev_was_upper
                                THEN Append(res, "_") ELSE res,
                                to_ascii_lowercase(c)),
                         TRUE)
         ELSE snake_loop(name, i + 1, Append(res, c), FALSE)

\* The loop with the acronym guard lost: '_' before every uppercase character.
convert_camel_to_snake_NoRun(name) ==
    LET RECURSIVE every(_, _)
        every(i, res) ==
            IF i > Len(name) THEN res
            ELSE IF is_uppercase(name[i])
                 THEN every(i + 1, Append(IF res # <<>> THEN Append(res, "_") ELSE res,
                                          to_ascii_lowercase(name[i])))
                 ELSE every(i + 1, Append(res, name[i]))
    IN every(1, <<>>)

\* The loop with the result.is_empty() test lost: '_' also before a leading capital.
convert_camel_to_snake_Leading(name) ==
    LET RECURSIVE lead(_, _, _)
        lead(i, res, prev_was_upper) ==
            IF i > Len(name) THEN res
            ELSE IF is_uppercase(name[i])
                 THEN lead(i + 1, Append(IF ~prev_was_upper THEN Append(res, "_") ELSE res,
                                         to_ascii_lowercase(name[i])), TRUE)
                 ELSE lead(i + 1, Append(res, name[i]), FALSE)
    IN lead(1, <<>>, FALSE)

convert_camel_to_snake(name) == snake_loop(name, 1, <<>>, FALSE)

(***************************************************************************)
(* Identifiers the normalizer is applied to.                               *)
(***************************************************************************)
HTTPServer == <<"H","T","T","P","S","e","r","v","e","r">>
FirstName == <<"F","i","r","s","t","N","a","m","e">>
first_name == <<"f","i","r","s","t","_","n","a","m","e">>
id == <<"i","d">>

SnakeAlphabet == {"I", "D", "a", "_", EAcute}

SnakeInputs == StringsUpTo(SnakeAlphabet, MaxNameLen) \cup {HTTPServer, FirstName, id}

(***************************************************************************)
(* The parts of the state a specification does not use stay as they are.   *)
(***************************************************************************)
NoLast == [closed |-> FALSE]
NoneSeen == [elems |-> 0, chars |-> 0, attrs |-> 0]

BuilderIdle ==
    /\ reader = <<>>
    /\ stack = <<>>
    /\ current_text = <<>>
    /\ result = None
    /\ hist = <<>>
    /\ last = NoLast
    /\ seen = NoneSeen

builderVars == <<reader, stack, current_text, result, hist, last, seen>>

(***************************************************************************)
(* SpecSnake: the normalizer on every bounded identifier.                  *)
(***************************************************************************)
InitSnake ==
    /\ BuilderIdle
    /\ pc = "call"
    /\ args \in [name : SnakeInputs]
    /\ ret = None

CallSnake ==
    /\ pc = "call"
    /\ pc' = "snake_done"
    /\ ret' = convert_camel_to_snake(args.name)
    /\ UNCHANGED <<builderVars, args>>

NextSnake == CallSnake

SpecSnake == InitSnake /\ [][NextSnake]_vars

(***************************************************************************)
(* serde_json::Value.  The tag t sorts before the payload v.               *)
(***************************************************************************)
Null == [t |-> "null", v |-> <<>>]
Str(s) == [t |-> "str", v |-> s]
Arr(a) == [t |-> "arr", v |-> a]
Obj(m) == [t |-> "obj", v |-> m]

\* Map::new, xml_parser.rs:56
EmptyMap == [k \in {} |-> Null]

\* Map::insert, xml_parser.rs:61/72/96: a present key gets the new value
MapInsert(m, k, val) == [x \in (DOMAIN m) \cup {k} |-> IF x = k THEN val ELSE m[x]]

\* Map::get, paging.rs:25
MapGet(m, k) == IF k \in DOMAIN m THEN Some(m[k]) ELSE None

\* Value::get with a string index: only an Object has string keys
ValueGet(val, k) == IF val.t = "obj" THEN MapGet(val.v, k) ELSE None

\* Value::as_str
as_str(val) == IF val.t = "str" THEN Some(val.v) ELSE None

\* Value::is_array, xml_parser.rs:87
is_array(val) == val.t = "arr"

\* The reserved text key "$text", xml_parser.rs:72, parse_value.rs:21
TEXT == <<"$","t","e","x","t">>

(***************************************************************************)
(* i64 at the model's width, and str::parse::<i64>.                        *)
(***************************************************************************)
MinI64 == -(2 ^ (IntBits - 1))
MaxI64 == (2 ^ (IntBits - 1)) - 1
InI64(n) == MinI64 <= n /\ n <= MaxI64

\* Two's-complement wrap-around of an out-of-range result
Wrap(n) == ((n - MinI64) % (2 ^ IntBits)) + MinI64

Digits == {"0","1","2","3","4","5","6","7","8","9"}

DigitVal ==
    [c \in Digits |->
        CASE c = "0" -> 0 [] c = "1" -> 1 [] c = "2" -> 2 [] c = "3" -> 3
          [] c = "4" -> 4 [] c = "5" -> 5 [] c = "6" -> 6 [] c = "7" -> 7
          [] c = "8" -> 8 [] c = "9" -> 9]

\* core::num from_str_radix(src, 10) for i64: an optional sign, then digits
\* accumulated with checked_mul / checked_add (checked_sub when negative).
RECURSIVE parse_digits(_, _, _)
parse_digits(s, acc, neg) ==
    IF s = <<>> THEN Some(acc)
    ELSE IF Head(s) \notin Digits THEN None
    ELSE LET nxt == IF neg THEN acc * 10 - DigitVal[Head(s)]
                           ELSE acc * 10 + DigitVal[Head(s)]
         IN IF InI64(nxt) THEN parse_digits(Tail(s), nxt, neg) ELSE None

str_parse_i64(s) ==
    IF s = <<>> THEN None
    ELSE IF s = <<"+">> \/ s = <<"-">> THEN None
    ELSE IF Head(s) = "+" THEN parse_digits(Tail(s), 0, FALSE)
    ELSE IF Head(s) = "-" THEN parse_digits(Tail(s), 0, TRUE)
    ELSE parse_digits(s, 0, FALSE)

(***************************************************************************)
(* parse_value.rs                                                          *)
(***************************************************************************)
\* parse_string that looks at v.as_str() only, as parse_bool does
parse_string_PlainOnly(json, key, default) ==
    LET o == ValueGet(json, key)
    IN UnwrapOr(IF IsSome(o) THEN as_str(Unwrap(o)) ELSE None, default)

\* parse_value.rs:18-29
parse_string(json, key, default) ==
    LET o == ValueGet(json, key)
        r == IF IsSome(o)
             THEN LET val == Unwrap(o)
                      text == ValueGet(val, TEXT)
                  IN IF IsSome(text) THEN as_str(Unwrap(text)) ELSE as_str(val)
             ELSE None
    IN UnwrapOr(r, default)

\* parse_value.rs:43-48
parse_bool(json, key, default, true_value) ==
    LET o == ValueGet(json, key)
        r == IF IsSome(o) THEN as_str(Unwrap(o)) ELSE None
    IN UnwrapOr(r, default) = true_value

\* The miss sentinel, parse_value.rs:64
Sentinel == <<"0">>

\* parse_i64 that falls back to 0 where the string does not parse
parse_i64_ZeroDefault(json, key, default) ==
    LET o == ValueGet(json, key)
        r == IF IsSome(o) THEN as_str(Unwrap(o)) ELSE None
    IN UnwrapOr(str_parse_i64(UnwrapOr(r, Sentinel)), 0)

\* parse_value.rs:61-67
parse_i64(json, key, default) ==
    LET o == ValueGet(json, key)
        r == IF IsSome(o) THEN as_str(Unwrap(o)) ELSE None
    IN UnwrapOr(str_parse_i64(UnwrapOr(r, Sentinel)), default)

(***************************************************************************)
(* Inputs of the accessor layer.                                           *)
(***************************************************************************)
NumAlphabet == {"0", "1", "2", "5", "-", "x"}

NumStrs ==
    StringsUpTo(NumAlphabet, MaxNumLen)
      \cup {<<"+","2">>, <<"+">>, <<"9","9">>, <<"-","9","9">>}

true == <<"t","r","u","e">>
false == <<"f","a","l","s","e">>

LeafStrs == NumStrs \cup {true, false}

K == <<"k">>
Other == <<"o">>

\* What a tree can hold under one key: the two leaf shapes and the misses.
LeafValues ==
    {Str(s) : s \in LeafStrs}
      \cup {Obj(MapInsert(EmptyMap, TEXT, Str(s))) : s \in LeafStrs}
      \cup {Null, Arr(<<>>), Arr(<<Str(true)>>), Obj(EmptyMap),
            Obj(MapInsert(EmptyMap, TEXT, Null)),
            Obj(MapInsert(EmptyMap, TEXT, Obj(EmptyMap))),
            Obj(MapInsert(EmptyMap, Other, Str(true)))}

AccessNodes ==
    {Obj(MapInsert(EmptyMap, K, l)) : l \in LeafValues}
      \cup {Null, Str(true), Arr(<<Str(true)>>), Obj(EmptyMap),
            Obj(MapInsert(EmptyMap, Other, Str(true)))}

AccessKeys == {K, TEXT}
StrDefaults == {<<>>, true, false}
TrueValues == {true, <<"1">>}
IntDefaults == {0, 5, -1}

(***************************************************************************)
(* SpecAccess: each accessor on every bounded node.                        *)
(***************************************************************************)
InitAccess ==
    /\ BuilderIdle
    /\ pc = "call"
    /\ args \in [json : AccessNodes, key : AccessKeys, default : StrDefaults,
                 true_value : TrueValues, default_i64 : IntDefaults]
    /\ ret = None

CallParseString ==
    /\ pc = "call"
    /\ pc' = "parse_string"
    /\ ret' = parse_string(args.json, args.key, args.default)
    /\ UNCHANGED <<builderVars, args>>

CallParseBool ==
    /\ pc = "call"
    /\ pc' = "parse_bool"
    /\ ret' = parse_bool(args.json, args.key, args.default, args.true_value)
    /\ UNCHANGED <<builderVars, args>>

CallParseI64 ==
    /\ pc = "call"
    /\ pc' = "parse_i64"
    /\ ret' = parse_i64(args.json, args.key, args.default_i64)
    /\ UNCHANGED <<builderVars, args>>

NextAccess == CallParseString \/ CallParseBool \/ CallParseI64

SpecAccess == InitAccess /\ [][NextAccess]_vars

(***************************************************************************)
(* paging.rs: extract_pagination_info                                      *)
(***************************************************************************)
CurrentPageKey == <<"C","u","r","r","e","n","t","P","a","g","e">>
PageSizeKey == <<"P","a","g","e","S","i","z","e">>
TotalItemsKey == <<"T","o","t","a","l","I","t","e","m","s">>

DefaultCurrentPage == 1
DefaultPageSize == 21
DefaultTotalItems == 0

\* The field read as parse_string reads a leaf: a plain string counts as well
paging_field_Plain(paging_obj, key, initial, on_error) ==
    LET o == MapGet(paging_obj, key)
        text == IF IsSome(o) THEN ValueGet(Unwrap(o), TEXT) ELSE None
        str == IF IsSome(text) THEN as_str(Unwrap(text))
               ELSE IF IsSome(o) THEN as_str(Unwrap(o)) ELSE None
    IN IF IsSome(str) THEN UnwrapOr(str_parse_i64(Unwrap(str)), on_error) ELSE initial

\* paging.rs:24-31, 33-40, 42-49: the field stays at its default unless the
\* key holds a "$text" string, and then takes parse().unwrap_or(on_error)
paging_field(paging_obj, key, initial, on_error) ==
    LET o == MapGet(paging_obj, key)
        text == IF IsSome(o) THEN ValueGet(Unwrap(o), TEXT) ELSE None
        str == IF IsSome(text) THEN as_str(Unwrap(text)) ELSE None
    IN IF IsSome(str) THEN UnwrapOr(str_parse_i64(Unwrap(str)), on_error) ELSE initial

\* Rust's integer division truncates toward zero (the divisor is positive here)
TruncDiv(a, b) == IF a >= 0 THEN a \div b ELSE -((-a) \div b)

\* paging.rs:55-59: (total_items + page_size - 1) / page_size.  The sum
\* overflows i64 for large operands: a build with overflow checks panics
\* there, a build without them wraps around.
total_pages_of(total_items, page_size, overflow_checks) ==
    IF page_size > 0
    THEN IF overflow_checks /\ ~InI64(total_items + page_size)
         THEN [kind |-> "panic"]
         ELSE [kind |-> "value",
               v |-> TruncDiv(Wrap(Wrap(total_items + page_size) - 1), page_size),
               wrapped |-> ~InI64(total_items + page_size)]
    ELSE [kind |-> "value", v |-> 0, wrapped |-> FALSE]

\* paging.rs:16-62; locals are the three fields as they stand at line 53,
\* before total_pages is computed
extract_pagination_info(paging, overflow_checks) ==
    LET some == IsSome(paging)
        current_page == IF some
                        THEN paging_field(Unwrap(paging), CurrentPageKey,
                                          DefaultCurrentPage, DefaultCurrentPage)
                        ELSE DefaultCurrentPage
        page_size == IF some
                     THEN paging_field(Unwrap(paging), PageSizeKey,
                                       DefaultPageSize, DefaultPageSize)
                     ELSE DefaultPageSize
        total_items == IF some
                       THEN paging_field(Unwrap(paging), TotalItemsKey,
                                         DefaultTotalItems, DefaultTotalItems)
                       ELSE DefaultTotalItems
        total_pages == total_pages_of(total_items, page_size, overflow_checks)
        locals == <<current_page, page_size, total_items>>
    IN IF total_pages.kind = "panic"
       THEN [kind |-> "panic", locals |-> locals, warned |-> ~some]
       ELSE [kind |-> "value",
             value |-> <<current_page, page_size, total_items, total_pages.v>>,
             locals |-> locals,
             wrapped |-> total_pages.wrapped,
             warned |-> ~some]

(***************************************************************************)
(* Inputs of extract_pagination_info.                                      *)
(***************************************************************************)
PagingFieldValues ==
    {Obj(MapInsert(EmptyMap, TEXT, Str(s))) : s \in NumStrs}
      \cup {Str(<<"2">>), Obj(EmptyMap), Obj(MapInsert(EmptyMap, TEXT, Null))}

CurrentPageValues ==
    {Obj(MapInsert(EmptyMap, TEXT, Str(<<"2">>))),
     Obj(MapInsert(EmptyMap, TEXT, Str(<<"x">>))),
     Str(<<"2">>)}

\* A Map with each key either absent (None) or holding the chosen value
PagingMap(cp, ps, ti) ==
    LET m1 == IF IsSome(cp) THEN MapInsert(EmptyMap, CurrentPageKey, Unwrap(cp))
              ELSE EmptyMap
        m2 == IF IsSome(ps) THEN MapInsert(m1, PageSizeKey, Unwrap(ps)) ELSE m1
    IN IF IsSome(ti) THEN MapInsert(m2, TotalItemsKey, Unwrap(ti)) ELSE m2

Optional(S) == {None} \cup {Some(x) : x \in S}

(***************************************************************************)
(* SpecPaging: extract_pagination_info on every bounded paging block, in a *)
(* build with and in a build without overflow checks.                      *)
(***************************************************************************)
InitPaging ==
    /\ BuilderIdle
    /\ pc = "call"
    /\ \/ args = [paging |-> None]
       \/ \E cp \in Optional(CurrentPageValues),
             ps \in Optional(PagingFieldValues),
             ti \in Optional(PagingFieldValues) :
                args = [paging |-> Some(PagingMap(cp, ps, ti))]
    /\ ret = None

CallPaging ==
    /\ pc = "call"
    /\ \E overflow_checks \in BOOLEAN :
          ret' = extract_pagination_info(args.paging, overflow_checks)
    /\ pc' = IF ret'.kind = "panic" THEN "panicked" ELSE "paging_done"
    /\ UNCHANGED <<builderVars, args>>

NextPaging == CallPaging

SpecPaging == InitPaging /\ [][NextPaging]_vars

(***************************************************************************)
(* Claims about the name normalizer (SpecSnake).                           *)
(***************************************************************************)
http_server == <<"h","t","t","p","_","s","e","r","v","e","r">>
httpserver == <<"h","t","t","p","s","e","r","v","e","r">>

\* C4 (as stated): convert_camel_to_snake maps "HTTPServer" to "http_server",
\* "FirstName" to "first_name" and "id" to "id".
C4_Examples ==
    pc = "snake_done" =>
        /\ args.name = HTTPServer => ret = http_server
        /\ args.name = FirstName => ret = first_name
        /\ args.name = id => ret = id

\* C4 (amended): convert_camel_to_snake maps "HTTPServer" to "httpserver" (the
\* capital S follows a capital, so no underscore is inserted), "FirstName" to
\* "first_name" and "id" to "id".
C4_ExamplesAmended ==
    pc = "snake_done" =>
        /\ args.name = HTTPServer => ret = httpserver
        /\ args.name = FirstName => ret = first_name
        /\ args.name = id => ret = id

C4_Witness == pc = "snake_done" /\ args.name = HTTPServer /\ ret = httpserver

IsAsciiName(name) == \A i \in 1..Len(name) : name[i] \notin NonAscii

\* The reference scan of the first n characters: the piece for character n is
\* decided by looking back at the input, not by a carried flag.
RECURSIVE RefScan(_, _)
RefScan(name, n) ==
    IF n = 0 THEN <<>>
    ELSE LET sofar == RefScan(name, n - 1)
             c == name[n]
         IN IF c \in AsciiUpper
            THEN (IF sofar # <<>> /\ name[n - 1] \notin AsciiUpper
                  THEN sofar \o <<"_">> ELSE sofar) \o <<LowerOf[c]>>
            ELSE sofar \o <<c>>

\* Positions of the input before which an underscore is due.
Boundaries(name) ==
    {i \in 2..Len(name) : name[i] \in AsciiUpper /\ name[i - 1] \notin AsciiUpper}

\* C5: for every ASCII identifier convert_camel_to_snake equals the reference
\* left-to-right scan; an input without uppercase letters is returned unchanged,
\* underscores are inserted only where a capital follows a non-capital (none
\* inside a run of capitals), and none at the start or the end of the output.
C5_ReferenceScan ==
    (pc = "snake_done" /\ IsAsciiName(args.name)) =>
        LET name == args.name IN
        /\ ret = RefScan(name, Len(name))
        /\ (\A i \in 1..Len(name) : name[i] \notin AsciiUpper) => ret = name
        /\ Len(ret) = Len(name) + Cardinality(Boundaries(name))
        /\ name # <<>> =>
              /\ ret[1] = to_ascii_lowercase(name[1])
              /\ ret[Len(ret)] = to_ascii_lowercase(name[Len(name)])

C5_Witness ==
    /\ pc = "snake_done"
    /\ args.name = <<"a","I","D","a">>
    /\ ret = <<"a","_","i","d","a">>

(***************************************************************************)
(* Claims about the accessors (SpecAccess).                                *)
(***************************************************************************)
\* C6 (as stated): parse_bool returns true if and only if parse_string on the
\* same node, key and default equals true_literal, also for a "$text"-wrapped leaf.
C6_BoolViaString ==
    pc = "parse_bool" =>
        ret = (parse_string(args.json, args.key, args.default) = args.true_value)

\* C7 (as stated): parse_i64 returns the caller's default whenever the key is
\* absent from the node or the node is not an Object.
C7_AbsentGivesDefault ==
    (pc = "parse_i64" /\ ~(args.json.t = "obj" /\ args.key \in DOMAIN args.json.v)) =>
        ret = args.default_i64

\* C8: parse_string returns the "$text" string of an Object leaf, the string
\* itself for a plain string leaf, and the default in every other case.
C8_ParseStringCases ==
    pc = "parse_string" =>
        LET j == args.json
            k == args.key
        IN IF j.t = "obj" /\ k \in DOMAIN j.v
           THEN LET leaf == j.v[k] IN
                CASE leaf.t = "obj" /\ TEXT \in DOMAIN leaf.v /\ leaf.v[TEXT].t = "str" ->
                        ret = leaf.v[TEXT].v
                  [] leaf.t = "str" -> ret = leaf.v
                  [] OTHER -> ret = args.default
           ELSE ret = args.default

C8_Witness ==
    /\ pc = "parse_string"
    /\ args.key = K
    /\ args.json = Obj(MapInsert(EmptyMap, K, Obj(MapInsert(EmptyMap, TEXT, Str(true)))))
    /\ args.default = false
    /\ ret = true

(***************************************************************************)
(* Claims about extract_pagination_info (SpecPaging).                      *)
(***************************************************************************)
\* The mathematical ceiling of a / b for b > 0.
Ceil(a, b) == -((-a) \div b)

\* C9 (as stated): extract_pagination_info returns total_pages = the ceiling of
\* total_items / page_size whenever page_size > 0, and 0 whenever
\* page_size <= 0, for every parsable pair, negative and near-limit included.
C9_CeilingPages ==
    pc \in {"paging_done", "panicked"} =>
        /\ ret.kind = "value"
        /\ LET page_size == ret.value[2]
               total_items == ret.value[3]
           IN ret.value[4] = IF page_size > 0 THEN Ceil(total_items, page_size) ELSE 0

\* C10 (as stated): every accessor call completes with a value and never
\* fails, panics or overflows.
C10_Total ==
    /\ pc # "panicked"
    /\ pc = "paging_done" => ~ret.wrapped

\* What the claim says a field is: the integer in the "$text" string of its
\* own key, else its default.
FieldOf(m, key, default) ==
    IF /\ key \in DOMAIN m
       /\ m[key].t = "obj"
       /\ TEXT \in DOMAIN m[key].v
       /\ m[key].v[TEXT].t = "str"
       /\ IsSome(str_parse_i64(m[key].v[TEXT].v))
    THEN Unwrap(str_parse_i64(m[key].v[TEXT].v))
    ELSE default

\* C20: without a paging block extract_pagination_info returns (1, 21, 0, 0)
\* and warns; with one it does not warn, and current_page, page_size and
\* total_items are each the integer in the "$text" of their own key, or their
\* own default 1, 21, 0 when the key is absent, not "$text"-wrapped or unparsable.
C20_PagingFields ==
    pc \in {"paging_done", "panicked"} =>
        IF args.paging = None
        THEN ret.kind = "value" /\ ret.value = <<1, 21, 0, 0>> /\ ret.warned
        ELSE LET m == Unwrap(args.paging) IN
             /\ ~ret.warned
             /\ ret.locals = <<FieldOf(m, CurrentPageKey, 1),
                               FieldOf(m, PageSizeKey, 21),
                               FieldOf(m, TotalItemsKey, 0)>>
             /\ ret.kind = "value" => SubSeq(ret.value, 1, 3) = ret.locals

C20_Witness ==
    /\ pc = "paging_done"
    /\ IsSome(args.paging)
    /\ LET m == Unwrap(args.paging) IN
       /\ DOMAIN m = {CurrentPageKey, PageSizeKey}
       /\ m[CurrentPageKey] = Str(<<"2">>)
       /\ m[PageSizeKey] = Obj(MapInsert(EmptyMap, TEXT, Str(<<"5">>)))
    /\ ret.value = <<1, 5, 0, 0>>

(***************************************************************************)
(* The tree builder, xml_parser.rs:41-113.                                 *)
(*                                                                         *)
(* The handlers of the loop are operators on the locals of one invocation; *)
(* the actions of each specification apply them.  When the function        *)
(* returns, its locals (stack, current_text) are dropped.                  *)
(***************************************************************************)
ElemNames == {<<"a">>, <<"b">>}

Id == <<"I","d">>

\* The attribute lists of a start-element event: (name, value) pairs in order.
\* "B" normalizes to the element name "b"; "Id" and "id" normalize to one key.
AttrLists ==
    {<<>>,
     <<<<<<"B">>, <<" ","7">>>>, <<Id, <<"5">>>>, <<id, <<"6">>>>>>}

CharTexts == {<<"x"," ">>, <<" ">>}

\* xml_parser.rs:56-62: the Object of a new frame, one insert per attribute
\* The first attribute of a key kept, later ones dropped
RECURSIVE attrs_to_obj_KeepFirst(_, _)
attrs_to_obj_KeepFirst(attributes, obj) ==
    IF attributes = <<>> THEN obj
    ELSE LET attr == Head(attributes)
             attr_name == convert_camel_to_snake(attr[1])
         IN attrs_to_obj_KeepFirst(Tail(attributes),
                IF attr_name \in DOMAIN obj THEN obj
                ELSE MapInsert(obj, attr_name, Str(attr[2])))

RECURSIVE attrs_to_obj(_, _)
attrs_to_obj(attributes, obj) ==
    IF attributes = <<>> THEN obj
    ELSE LET attr == Head(attributes)
             attr_name == convert_camel_to_snake(attr[1])
         IN attrs_to_obj(Tail(attributes), MapInsert(obj, attr_name, Str(attr[2])))

\* The merge with a present key always overwritten
merge_child_Overwrite(parent_obj, element_name, json_obj) ==
    MapInsert(parent_obj, element_name, json_obj)

\* The merge with the new occurrence put in front of the existing value
merge_child_Prepend(parent_obj, element_name, json_obj) ==
    IF element_name \in DOMAIN parent_obj
    THEN LET existing == parent_obj[element_name] IN
         IF ~is_array(existing)
         THEN MapInsert(parent_obj, element_name, Arr(<<json_obj, existing>>))
         ELSE MapInsert(parent_obj, element_name, Arr(<<json_obj>> \o existing.v))
    ELSE MapInsert(parent_obj, element_name, json_obj)

\* xml_parser.rs:84-97: add the closed element to its parent
merge_child(parent_obj, element_name, json_obj) ==
    IF element_name \in DOMAIN parent_obj
    THEN LET existing == parent_obj[element_name] IN
         IF ~is_array(existing)
         THEN MapInsert(parent_obj, element_name, Arr(<<existing, json_obj>>))
         ELSE MapInsert(parent_obj, element_name, Arr(Append(existing.v, json_obj)))
    ELSE MapInsert(parent_obj, element_name, json_obj)

\* The locals of one invocation and where it is: "run" inside the loop of
\* xml_parser.rs:53, afterwards the outcome it returned with.
Locals(s, t, p, r) == [stack |-> s, current_text |-> t, pc |-> p, result |-> r]

\* xml_parser.rs:50-51
InitLocals == Locals(<<>>, <<>>, "run", None)

\* return: the locals are dropped, the caller gets Ok(tree) or Err
Returned(p, r) == Locals(<<>>, <<>>, p, r)

\* The events of xml::reader::XmlEvent the loop matches on, xml_parser.rs:54-108
StartEv(name, attributes) ==
    [kind |-> "start", name |-> name, attributes |-> attributes, text |-> <<>>]
CharsEv(text) == [kind |-> "chars", name |-> <<>>, attributes |-> <<>>, text |-> text]
EndEv(name) == [kind |-> "end", name |-> name, attributes |-> <<>>, text |-> <<>>]
OtherEv == [kind |-> "other", name |-> <<>>, attributes |-> <<>>, text |-> <<>>]
ErrEv == [kind |-> "error", name |-> <<>>, attributes |-> <<>>, text |-> <<>>]

\* A start-element that leaves the pending text as it is
on_start_NoClear(loc, name, attributes) ==
    [loc EXCEPT !.stack = Append(@, [name |-> name,
                                     obj |-> attrs_to_obj(attributes, EmptyMap)])]

\* The element name normalized like an attribute name
on_start_Normalized(loc, name, attributes) ==
    [loc EXCEPT !.stack = Append(@, [name |-> convert_camel_to_snake(name),
                                     obj |-> attrs_to_obj(attributes, EmptyMap)]),
                !.current_text = <<>>]

\* xml_parser.rs:55-66
on_start(loc, name, attributes) ==
    [loc EXCEPT !.stack = Append(@, [name |-> name,
                                     obj |-> attrs_to_obj(attributes, EmptyMap)]),
                !.current_text = <<>>]

\* xml_parser.rs:102-104
on_characters(loc, text) == [loc EXCEPT !.current_text = @ \o text]

\* A text-only element degraded to its bare string
element_value_Scalar(obj, text) ==
    LET trimmed == trim(text) IN
    IF trimmed # <<>>
    THEN IF DOMAIN obj = {} THEN Str(trimmed) ELSE Obj(MapInsert(obj, TEXT, Str(trimmed)))
    ELSE Obj(obj)

\* The text inserted as collected, without trimming
element_value_Untrimmed(obj, text) ==
    Obj(IF text # <<>> THEN MapInsert(obj, TEXT, Str(text)) ELSE obj)

\* The text is inserted only where the object has no "$text" yet
element_value_KeepExisting(obj, text) ==
    LET trimmed == trim(text) IN
    Obj(IF trimmed # <<>> /\ TEXT \notin DOMAIN obj
        THEN MapInsert(obj, TEXT, Str(trimmed)) ELSE obj)

\* xml_parser.rs:70-75: the Value of the element being closed
element_value(obj, text) ==
    LET trimmed == trim(text) IN
    Obj(IF trimmed # <<>> THEN MapInsert(obj, TEXT, Str(trimmed)) ELSE obj)

\* The root returned without its wrapper
root_result_Bare(name, json_obj) == json_obj

\* xml_parser.rs:79: json!({ name.local_name: json_obj })
root_result(name, json_obj) == Obj(MapInsert(EmptyMap, name, json_obj))

\* The root kept as a result while the loop goes on reading
return_root_Continue(name, json_obj) ==
    Locals(<<>>, <<>>, "run", Some(root_result(name, json_obj)))

\* xml_parser.rs:77-79: return Ok(..) as soon as the stack is empty
return_root(name, json_obj) == Returned("ok", Some(root_result(name, json_obj)))

\* The stack.is_empty() test lost: the first element that closes is returned
on_end_FirstClose(loc, name) ==
    IF loc.stack = <<>>
    THEN [loc EXCEPT !.current_text = <<>>]
    ELSE return_root(name, element_value(loc.stack[Len(loc.stack)].obj, loc.current_text))

\* The closed element merged into the bottom frame instead of its parent
on_end_ToRoot(loc, name) ==
    IF loc.stack = <<>>
    THEN [loc EXCEPT !.current_text = <<>>]
    ELSE LET top == loc.stack[Len(loc.stack)]
             rest == SubSeq(loc.stack, 1, Len(loc.stack) - 1)
             json_obj == element_value(top.obj, loc.current_text)
         IN IF rest = <<>>
            THEN return_root(name, json_obj)
            ELSE [loc EXCEPT !.stack = [rest EXCEPT ![1].obj =
                                            merge_child(@, top.name, json_obj)],
                             !.current_text = <<>>]

\* xml_parser.rs:67-101; name is the name the event carries
on_end(loc, name) ==
    IF loc.stack = <<>>
    THEN \* stack.pop() is None: only the buffer is cleared
         [loc EXCEPT !.current_text = <<>>]
    ELSE LET top == loc.stack[Len(loc.stack)]
             rest == SubSeq(loc.stack, 1, Len(loc.stack) - 1)
             json_obj == element_value(top.obj, loc.current_text)
         IN IF rest = <<>>
            THEN return_root(name, json_obj)
            ELSE [loc EXCEPT !.stack = [rest EXCEPT ![Len(rest)].obj =
                                            merge_child(@, top.name, json_obj)],
                             !.current_text = <<>>]

\* The error event skipped, the loop goes on
on_error_Skip(loc) == loc

\* The error returned together with what was built of the root so far
on_error_Partial(loc) ==
    Returned("malformed",
             IF loc.stack = <<>> THEN None ELSE Some(Obj(loc.stack[1].obj)))

\* xml_parser.rs:105-107: return Err
on_error(loc) == Returned("malformed", None)

\* xml_parser.rs:108: every other event (StartDocument, EndDocument, CData,
\* comments, ...) is skipped
on_other(loc) == loc

\* The end of the stream taken for the end of the document: what was built of
\* the root so far is returned
on_eof_Partial(loc) ==
    IF loc.stack = <<>> THEN Returned("eof", None)
    ELSE Returned("ok", Some(root_result(loc.stack[1].name, Obj(loc.stack[1].obj))))

\* xml_parser.rs:112: the iterator ended before the root was closed; return Err
on_eof(loc) == Returned("eof", None)

\* xml_parser.rs:54: match event
on_event(loc, event) ==
    CASE event.kind = "start" -> on_start(loc, event.name, event.attributes)
      [] event.kind = "end" -> on_end(loc, event.name)
      [] event.kind = "chars" -> on_characters(loc, event.text)
      [] event.kind = "error" -> on_error(loc)
      [] OTHER -> on_other(loc)

\* The locals of the running invocation, and their next values.
Here == Locals(stack, current_text, pc, result)

Becomes(loc) ==
    /\ stack' = loc.stack
    /\ current_text' = loc.current_text
    /\ pc' = loc.pc
    /\ result' = loc.result

(***************************************************************************)
(* Spec: the event source delivers the events of a properly nested         *)
(* document one by one (reader holds nothing in advance).                  *)
(***************************************************************************)
Init ==
    /\ reader = <<>>
    /\ stack = <<>>
    /\ current_text = <<>>
    /\ pc = "run"
    /\ result = None
    /\ hist = <<>>
    /\ last = NoLast
    /\ seen = NoneSeen
    /\ args = None
    /\ ret = None

StartElement(name, attributes) ==
    /\ pc = "run"
    /\ Len(stack) < MaxDepth
    /\ seen.elems < MaxElems
    /\ attributes # <<>> => seen.attrs < MaxAttrElems
    /\ Becomes(on_start(Here, name, attributes))
    /\ hist' = Append(hist, [name |-> name, ord |-> seen.elems + 1,
                             attrs |-> attributes, kids |-> <<>>, text |-> <<>>])
    /\ last' = NoLast
    /\ seen' = [seen EXCEPT !.elems = @ + 1,
                            !.attrs = IF attributes # <<>> THEN @ + 1 ELSE @]
    /\ UNCHANGED <<reader, args, ret>>

\* The event source delivers text inside an element only.
Characters(text) ==
    /\ pc = "run"
    /\ stack # <<>>
    /\ seen.chars < MaxChars
    /\ Becomes(on_characters(Here, text))
    /\ hist' = [hist EXCEPT ![Len(hist)].text = @ \o text]
    /\ last' = NoLast
    /\ seen' = [seen EXCEPT !.chars = @ + 1]
    /\ UNCHANGED <<reader, args, ret>>

EndElement(name) ==
    /\ pc = "run"
    /\ Becomes(on_end(Here, name))
    /\ IF stack = <<>>
       THEN /\ last' = NoLast
            /\ UNCHANGED hist
       ELSE LET top == stack[Len(stack)]
                json_obj == element_value(top.obj, current_text)
            IN /\ last' = [closed |-> TRUE, name |-> top.name, val |-> json_obj,
                           obj |-> IF json_obj.t = "obj" THEN json_obj.v ELSE EmptyMap,
                           h |-> hist[Len(hist)]]
               /\ hist' = IF Len(stack) = 1 THEN <<>>
                          ELSE [SubSeq(hist, 1, Len(hist) - 1) EXCEPT
                                    ![Len(hist) - 1].kids =
                                        Append(@, [name |-> top.name, obj |-> json_obj])]
    /\ UNCHANGED <<reader, seen, args, ret>>

IgnoredEvent ==
    /\ pc = "run"
    /\ Becomes(on_other(Here))
    /\ UNCHANGED <<reader, hist, last, seen, args, ret>>

ErrorEvent ==
    /\ pc = "run"
    /\ Becomes(on_error(Here))
    /\ hist' = <<>>
    /\ last' = NoLast
    /\ UNCHANGED <<reader, seen, args, ret>>

EndOfStream ==
    /\ pc = "run"
    /\ Becomes(on_eof(Here))
    /\ hist' = <<>>
    /\ last' = NoLast
    /\ UNCHANGED <<reader, seen, args, ret>>

\* The event source closes the element that is open.
SourceEnd == stack # <<>> /\ EndElement(stack[Len(stack)].name)

SourceStart == \E name \in ElemNames, attributes \in AttrLists : StartElement(name, attributes)

SourceChars == \E text \in CharTexts : Characters(text)

Next ==
    \/ SourceStart
    \/ SourceChars
    \/ SourceEnd
    \/ IgnoredEvent
    \/ ErrorEvent
    \/ EndOfStream

Spec == Init /\ [][Next]_vars

(***************************************************************************)
(* SpecStream: the input is a finite stream of events fixed in advance,    *)
(* properly nested or not; args.events keeps the whole stream, reader what *)
(* is still unread.  The loop of xml_parser.rs:53 takes the next event, or *)
(* finds the iterator exhausted and falls through to line 112.             *)
(***************************************************************************)
MaxStreamLen == 4   \* events of a stream

\* Element "B" differs from its attribute key "b" only by case; its attributes
\* "Id" and "id" normalize to one key; a text may be all whitespace.
StreamEvents ==
    {StartEv(<<"a">>, <<>>),
     StartEv(<<"B">>, <<<<Id, <<" ","5">>>>, <<id, <<"6">>>>, <<<<"B">>, <<"7">>>>>>),
     CharsEv(<<" ","x">>), CharsEv(<<" ">>),
     EndEv(<<"a">>), EndEv(<<"B">>), OtherEv, ErrEv}

\* <a Id="5"><b>x</b></a>
IdDocument ==
    <<StartEv(<<"a">>, <<<<Id, <<"5">>>>>>), StartEv(<<"b">>, <<>>), CharsEv(<<"x">>),
      EndEv(<<"b">>), EndEv(<<"a">>)>>

\* <a FirstName="1" first_name="2"></a>
FirstNameDocument ==
    <<StartEv(<<"a">>, <<<<FirstName, <<"1">>>>, <<first_name, <<"2">>>>>>),
      EndEv(<<"a">>)>>

\* An element with an attribute named "$text" and text of its own
TextAttributeStream ==
    <<StartEv(<<"a">>, <<<<TEXT, <<"v">>>>>>), CharsEv(<<"x">>), EndEv(<<"a">>)>>

\* An element with a child named "$text" and, after it, text of its own
TextChildStream ==
    <<StartEv(<<"a">>, <<>>), StartEv(TEXT, <<>>), EndEv(TEXT), CharsEv(<<"x">>),
      EndEv(<<"a">>)>>

\* An element that gets text before and after its child
TextAroundChildStream ==
    <<StartEv(<<"a">>, <<>>), CharsEv(<<"x">>), StartEv(<<"b">>, <<>>),
      CharsEv(<<"y">>), CharsEv(<<" ","z">>), EndEv(<<"b">>), CharsEv(<<"w"," ">>),
      EndEv(<<"a">>)>>

ExampleStreams ==
    {IdDocument, FirstNameDocument, TextAttributeStream, TextChildStream,
     TextAroundChildStream}

InitStream ==
    /\ reader \in StringsUpTo(StreamEvents, MaxStreamLen) \cup ExampleStreams
    /\ args = [events |-> reader]
    /\ stack = InitLocals.stack
    /\ current_text = InitLocals.current_text
    /\ pc = InitLocals.pc
    /\ result = InitLocals.result
    /\ hist = <<>>
    /\ last = NoLast
    /\ seen = NoneSeen
    /\ ret = None

\* xml_parser.rs:53-109: one iteration of `for event in reader`
ReadEvent ==
    /\ pc = "run"
    /\ reader # <<>>
    /\ Becomes(on_event(Here, Head(reader)))
    /\ reader' = Tail(reader)
    /\ UNCHANGED <<hist, last, seen, args, ret>>

\* xml_parser.rs:110-112: the iterator yields nothing more
ReaderExhausted ==
    /\ pc = "run"
    /\ reader = <<>>
    /\ Becomes(on_eof(Here))
    /\ UNCHANGED <<reader, hist, last, seen, args, ret>>

NextStream == ReadEvent \/ ReaderExhausted

SpecStream == InitStream /\ [][NextStream]_vars

\* The function is sequential code: while it is inside the loop it goes on.
FairSpecStream == SpecStream /\ WF_vars(NextStream)

(***************************************************************************)
(* SpecPair: two invocations of parse_xml_to_json, each on its own input,  *)
(* their loop iterations interleaved in any order.  Every variable of the  *)
(* builder holds one value per invocation; stack and current_text are      *)
(* locals, so each invocation finds its own in its own activation.         *)
(***************************************************************************)
MaxPairLen == 3     \* events of each of the two streams

Invocations == {1, 2}

PairEvents == {StartEv(<<"a">>, <<>>), CharsEv(<<"x">>), EndEv(<<"a">>)}

\* One stack and one buffer for the whole process
locals_of_Static(i) == 1

\* xml_parser.rs:50-51: `let mut stack`, `let mut current_text` are created
\* anew by each call
locals_of(i) == i

Activations == {locals_of(i) : i \in Invocations}

\* The locals invocation i works on.
LocalsOf(i) ==
    Locals(stack[locals_of(i)], current_text[locals_of(i)], pc[i], result[i])

InitPair ==
    /\ reader \in [Invocations -> StringsUpTo(PairEvents, MaxPairLen)]
    /\ args = [events |-> reader]
    /\ stack = [k \in Activations |-> InitLocals.stack]
    /\ current_text = [k \in Activations |-> InitLocals.current_text]
    /\ pc = [i \in Invocations |-> InitLocals.pc]
    /\ result = [i \in Invocations |-> InitLocals.result]
    /\ hist = <<>>
    /\ last = NoLast
    /\ seen = NoneSeen
    /\ ret = None

\* xml_parser.rs:53-112: invocation i runs one iteration of its loop, or finds
\* its iterator exhausted
InvocationStep(i) ==
    /\ pc[i] = "run"
    /\ LET new == IF reader[i] # <<>>
                  THEN on_event(LocalsOf(i), Head(reader[i]))
                  ELSE on_eof(LocalsOf(i))
       IN /\ stack' = [stack EXCEPT ![locals_of(i)] = new.stack]
          /\ current_text' = [current_text EXCEPT ![locals_of(i)] = new.current_text]
          /\ pc' = [pc EXCEPT ![i] = new.pc]
          /\ result' = [result EXCEPT ![i] = new.result]
    /\ reader' = [reader EXCEPT ![i] = IF @ # <<>> THEN Tail(@) ELSE @]
    /\ UNCHANGED <<hist, last, seen, args, ret>>

NextPair == \E i \in Invocations : InvocationStep(i)

SpecPair == InitPair /\ [][NextPair]_vars

(***************************************************************************)
(* lib.rs, request_builder.rs, set_hosts.rs: where a request is sent.  A   *)
(* URL is kept in the pieces format! puts together: the base and the       *)
(* query parameters in order.                                              *)
(***************************************************************************)
\* lib.rs:12-13
NAMECHEAP_API_URL == "https://api.namecheap.com"
NAMECHEAP_SANDBOX_API_URL == "https://api.sandbox.namecheap.com"

\* lib.rs:131-150; the credentials are the same in every client of the model
NameCheapClient_new(production) ==
    [api_user |-> "user", api_key |-> "key", client_ip |-> "ip", user_name |-> "user",
     production |-> production,
     api_url |-> IF production THEN Some(NAMECHEAP_API_URL)
                 ELSE Some(NAMECHEAP_SANDBOX_API_URL)]

\* request_builder.rs:49-62
Request_new(client, command, page, domain_name) ==
    [client |-> client, command |-> command, page |-> page,
     domain_name |-> domain_name, domain_id |-> None]

\* request_builder.rs:164-167
with_domain_id(request, domain_id) == [request EXCEPT !.domain_id = Some(domain_id)]

\* request_builder.rs:72-104
build_url(request) ==
    [base |-> IF request.client.production THEN NAMECHEAP_API_URL
              ELSE NAMECHEAP_SANDBOX_API_URL,
     path |-> "/xml.response",
     query |-> <<<<"ApiUser", request.client.api_user>>,
                 <<"ApiKey", request.client.api_key>>,
                 <<"UserName", request.client.user_name>>,
                 <<"Command", request.command>>,
                 <<"ClientIp", request.client.client_ip>>>>
               \o (IF IsSome(request.page)
                   THEN <<<<"Page", Unwrap(request.page)>>>> ELSE <<>>)
               \o (IF IsSome(request.domain_name)
                   THEN <<<<"DomainName", Unwrap(request.domain_name)>>>> ELSE <<>>)
               \o (IF IsSome(request.domain_id)
                   THEN <<<<"DomainID", Unwrap(request.domain_id)>>>> ELSE <<>>)]

\* set_hosts.rs:247-256: the URL the host records are posted to
set_hosts_url(client, sld, tld) ==
    [base |-> "https://api.namecheap.com",
     path |-> "/xml.response",
     query |-> <<<<"ApiUser", client.api_user>>,
                 <<"ApiKey", client.api_key>>,
                 <<"UserName", client.user_name>>,
                 <<"Command", "namecheap.domains.dns.setHosts">>,
                 <<"ClientIp", client.client_ip>>,
                 <<"SLD", sld>>,
                 <<"TLD", tld>>>>]

\* The commands sent through Request (get_list.rs:62, get_contacts.rs:40,
\* get_tld_list.rs:43, domains_dns/get_hosts.rs:43, domains_dns/get_list.rs:44)
Commands ==
    {"namecheap.domains.getList", "namecheap.domains.getContacts",
     "namecheap.domains.getTldList", "namecheap.domains.dns.getHosts",
     "namecheap.domains.dns.getList"}

\* The struct has public fields: a client is made by new, or field by field
Clients ==
    {[NameCheapClient_new(p) EXCEPT !.api_url = u] :
        p \in BOOLEAN,
        u \in {None, Some(NAMECHEAP_API_URL), Some(NAMECHEAP_SANDBOX_API_URL)}}

(***************************************************************************)
(* SpecClient: a request of every kind, through every client.              *)
(***************************************************************************)
InitClient ==
    /\ BuilderIdle
    /\ pc = "call"
    /\ \E client \in Clients, command \in Commands,
          page \in {None, Some(1), Some(2)},
          domain_name \in {None, Some("example.com")},
          domain_id \in {None, Some(7)} :
            args = [client |-> client,
                    request |-> IF IsSome(domain_id)
                                THEN with_domain_id(
                                        Request_new(client, command, page, domain_name),
                                        Unwrap(domain_id))
                                ELSE Request_new(client, command, page, domain_name),
                    sld |-> "example", tld |-> "com"]
    /\ ret = None

\* request_builder.rs:114-124: send() requests the URL build_url gives
CallSend ==
    /\ pc = "call"
    /\ pc' = "sent"
    /\ ret' = build_url(args.request)
    /\ UNCHANGED <<builderVars, args>>

\* set_hosts.rs:246-261: the POST of domains_dns_set_hosts
CallSetHostsPost ==
    /\ pc = "call"
    /\ pc' = "posted"
    /\ ret' = set_hosts_url(args.client, args.sld, args.tld)
    /\ UNCHANGED <<builderVars, args>>

NextClient == CallSend \/ CallSetHostsPost

SpecClient == InitClient /\ [][NextClient]_vars

(***************************************************************************)
(* The event loop as one function, for the callers of parse_xml_to_json.   *)
(***************************************************************************)
\* xml_parser.rs:53-112: the loop from some locals on, over the events left
RECURSIVE event_loop(_, _)
event_loop(loc, events) ==
    IF loc.pc # "run" THEN loc
    ELSE IF events = <<>> THEN on_eof(loc)
    ELSE event_loop(on_event(loc, Head(events)), Tail(events))

\* xml_parser.rs:41-113: Ok(document) or Err
parse_xml_to_json(events) ==
    LET end == event_loop(InitLocals, events) IN
    IF end.pc = "ok" THEN [kind |-> "Ok", value |-> Unwrap(end.result)]
    ELSE [kind |-> "Err"]

\* Value::as_object / Value::as_array
as_object(value) == IF value.t = "obj" THEN Some(value.v) ELSE None

as_array(value) == IF value.t = "arr" THEN Some(value.v) ELSE None

\* Option::and_then over ValueGet
GetIn(option, key) == IF IsSome(option) THEN ValueGet(Unwrap(option), key) ELSE None

(***************************************************************************)
(* domains/get_list.rs                                                     *)
(***************************************************************************)
ApiResponse == <<"A","p","i","R","e","s","p","o","n","s","e">>
CommandResponse == <<"C","o","m","m","a","n","d","R","e","s","p","o","n","s","e">>
DomainGetListResult == <<"D","o","m","a","i","n","G","e","t","L","i","s","t","R","e","s","u","l","t">>
Domain == <<"D","o","m","a","i","n">>
Paging == <<"P","a","g","i","n","g">>
WG_ENABLED == <<"E","N","A","B","L","E","D">>
NOTPRESENT == <<"N","O","T","P","R","E","S","E","N","T">>

\* get_list.rs:86-125: one Domain of the list
DomainOf(domain) ==
    [id |-> parse_i64(domain, <<"i","d">>, 0),
     name |-> parse_string(domain, <<"n","a","m","e">>, <<>>),
     user |-> parse_string(domain, <<"u","s","e","r">>, <<>>),
     created |-> parse_string(domain, <<"c","r","e","a","t","e","d">>, <<>>),
     expires |-> parse_string(domain, <<"e","x","p","i","r","e","s">>, <<>>),
     is_expired |-> parse_bool(domain, <<"i","s","_","e","x","p","i","r","e","d">>, false, true),
     is_locked |-> parse_bool(domain, <<"i","s","_","l","o","c","k","e","d">>, false, true),
     auto_renew |-> parse_bool(domain, <<"a","u","t","o","_","r","e","n","e","w">>, false, true),
     whois_guard |-> parse_bool(domain, <<"w","h","o","i","s","_","g","u","a","r","d">>, NOTPRESENT, WG_ENABLED),
     is_premium |-> parse_bool(domain, <<"i","s","_","p","r","e","m","i","u","m">>, false, true),
     is_our_dns |-> parse_bool(domain, <<"i","s","_","o","u","r","_","d","n","s">>, false, true)]

\* get_list.rs:162-171
empty_result ==
    [kind |-> "Ok", domains |-> <<>>, pagination |-> [currentPage |-> 1, totalPages |-> 1]]

\* get_list.rs:68-171, from the response that send() returned
domains_of_response(response, overflow_checks) ==
    LET command_response == GetIn(ValueGet(response, ApiResponse), CommandResponse)
        paging_value == GetIn(command_response, Paging)
        paging == IF IsSome(paging_value) THEN as_object(Unwrap(paging_value)) ELSE None
        info == extract_pagination_info(paging, overflow_checks)
        domains == GetIn(GetIn(command_response, DomainGetListResult), Domain)
        domains_array == IF IsSome(domains) THEN as_array(Unwrap(domains)) ELSE None
    IN IF IsSome(command_response) /\ info.kind = "panic" THEN [kind |-> "panic"]
       ELSE IF IsSome(domains_array)
       THEN [kind |-> "Ok",
             domains |-> [i \in 1..Len(Unwrap(domains_array)) |->
                             DomainOf(Unwrap(domains_array)[i])],
             pagination |-> [currentPage |-> info.value[1], totalPages |-> info.value[4]]]
       ELSE empty_result

\* get_list.rs:61-172; events are what the reader delivers for the response
domains_get_list(client, page, events, overflow_checks) ==
    LET request == Request_new(client, "namecheap.domains.getList",
                               Some(IF page > 1 THEN page ELSE 1), None)
        response == parse_xml_to_json(events)
    IN [url |-> build_url(request),
        value |-> IF response.kind = "Err" THEN [kind |-> "Err"]
                  ELSE domains_of_response(response.value, overflow_checks)]

(***************************************************************************)
(* SpecGetList: domains_get_list on the responses of the service with up   *)
(* to MaxDomains Domain elements and with or without a Paging block.       *)
(***************************************************************************)
MaxDomains == 2

\* The attribute lists a Domain element of a response comes with
DomainAttributes ==
    {<<<<<<"I","D">>, <<"1">>>>, <<<<"N","a","m","e">>, <<"a">>>>>>,
     <<<<<<"I","D">>, <<"2">>>>, <<<<"N","a","m","e">>, <<"b">>>>,
       <<<<"I","s","L","o","c","k","e","d">>, true>>, <<<<"W","h","o","i","s","G","u","a","r","d">>, WG_ENABLED>>>>,
     <<<<<<"N","a","m","e">>, <<"c">>>>>>}

\* <TotalItems>ti</TotalItems><CurrentPage>cp</CurrentPage><PageSize>ps</PageSize>
PagingBlocks ==
    [ti : {<<"0">>, <<"2">>, <<"5">>}, cp : {<<"1">>, <<"2">>}, ps : {<<"2">>, <<"2","0">>}]

\* <name>text</name>
TextElement(name, text) == <<StartEv(name, <<>>), CharsEv(text), EndEv(name)>>

RECURSIVE DomainElements(_)
DomainElements(domains) ==
    IF domains = <<>> THEN <<>>
    ELSE <<StartEv(Domain, Head(domains)), EndEv(Domain)>> \o DomainElements(Tail(domains))

PagingElement(paging) ==
    IF paging = None THEN <<>>
    ELSE <<StartEv(Paging, <<>>)>>
           \o TextElement(TotalItemsKey, Unwrap(paging).ti)
           \o TextElement(CurrentPageKey, Unwrap(paging).cp)
           \o TextElement(PageSizeKey, Unwrap(paging).ps)
           \o <<EndEv(Paging)>>

\* The events of a getList response document
GetListResponse(domains, paging) ==
    <<StartEv(ApiResponse, <<>>), StartEv(CommandResponse, <<>>),
      StartEv(DomainGetListResult, <<>>)>>
      \o DomainElements(domains)
      \o <<EndEv(DomainGetListResult)>>
      \o PagingElement(paging)
      \o <<EndEv(CommandResponse), EndEv(ApiResponse)>>

InitGetList ==
    /\ BuilderIdle
    /\ pc = "call"
    /\ args \in [client : {NameCheapClient_new(TRUE)},
                 page : {0, 2},
                 domains : StringsUpTo(DomainAttributes, MaxDomains),
                 paging : Optional(PagingBlocks)]
    /\ ret = None

CallDomainsGetList ==
    /\ pc = "call"
    /\ \E overflow_checks \in BOOLEAN :
          ret' = domains_get_list(args.client, args.page,
                                  GetListResponse(args.domains, args.paging),
                                  overflow_checks)
    /\ pc' = IF ret'.value.kind = "panic" THEN "panicked" ELSE "returned"
    /\ UNCHANGED <<builderVars, args>>

NextGetList == CallDomainsGetList

SpecGetList == InitGetList /\ [][NextGetList]_vars

(***************************************************************************)
(* domains_dns/get_hosts.rs and domains_dns/set_hosts.rs                   *)
(***************************************************************************)
DomainDNSGetHostsResult == <<"D","o","m","a","i","n","D","N","S","G","e","t","H","o","s","t","s","R","e","s","u","l","t">>
DomainDNSSetHostsResult == <<"D","o","m","a","i","n","D","N","S","S","e","t","H","o","s","t","s","R","e","s","u","l","t">>
host == <<"h","o","s","t">>
HostName == <<"H","o","s","t","N","a","m","e">>
RecordType == <<"R","e","c","o","r","d","T","y","p","e">>
Address == <<"A","d","d","r","e","s","s">>
MXPref == <<"M","X","P","r","e","f">>
TTL == <<"T","T","L">>

\* get_hosts.rs:38-60, on the events the reader delivers for the response
domains_dns_get_hosts(events) ==
    LET response == parse_xml_to_json(events)
        hosts == IF response.kind = "Ok"
                 THEN GetIn(GetIn(ValueGet(response.value, ApiResponse), CommandResponse),
                            DomainDNSGetHostsResult)
                 ELSE None
    IN IF IsSome(GetIn(hosts, host))
       THEN [kind |-> "Ok", value |-> Unwrap(GetIn(hosts, host))]
       ELSE [kind |-> "Err"]

\* json!(option): null for None
OptionValue(option) == IF IsSome(option) THEN Str(Unwrap(option)) ELSE Null

\* set_hosts.rs:114-123 (and 132-141): the object made of a HostRequest
host_json(h) ==
    Obj(MapInsert(MapInsert(MapInsert(MapInsert(MapInsert(MapInsert(MapInsert(MapInsert(
        EmptyMap, HostName, Str(h.host_name)), RecordType, Str(h.record_type)),
        Address, Str(h.address)), MXPref, OptionValue(h.mx_pref)),
        <<"E","m","a","i","l","T","y","p","e">>, OptionValue(h.email_type)),
        TTL, OptionValue(h.ttl)), <<"F","l","a","g">>, OptionValue(h.flag)),
        <<"T","a","g">>, OptionValue(h.tag)))

\* set_hosts.rs:102-144
combined_hosts(existing_hosts, new_hosts) ==
    LET made == [i \in 1..Len(new_hosts) |-> host_json(new_hosts[i])] IN
    IF IsSome(as_array(existing_hosts))
    THEN Unwrap(as_array(existing_hosts)) \o made
    ELSE made

\* host.get(key).unwrap_or(&Value::String("")).as_str(): None is where the
\* unwrap() that follows panics
host_str(h, key) ==
    LET o == ValueGet(h, key) IN as_str(IF IsSome(o) THEN Unwrap(o) ELSE Str(<<>>))

\* Some host of the list holds a field that is not a string
unwrap_panics(hosts) ==
    \E i \in 1..Len(hosts) :
        \E key \in {HostName, RecordType, Address, TTL} : host_str(hosts[i], key) = None

\* set_hosts.rs:213-235: the substitutions of one <Host .../> per host
hosts_xml(hosts) ==
    [i \in 1..Len(hosts) |->
        [HostId |-> i,
         Name |-> Unwrap(host_str(hosts[i], HostName)),
         Type |-> Unwrap(host_str(hosts[i], RecordType)),
         Address |-> Unwrap(host_str(hosts[i], Address)),
         TTL |-> Unwrap(host_str(hosts[i], TTL))]]

\* set_hosts.rs:263-270: what comes of the response to the POST
set_hosts_result(events) ==
    LET response == parse_xml_to_json(events)
        result_value == IF response.kind = "Ok"
                        THEN GetIn(GetIn(ValueGet(response.value, ApiResponse),
                                         CommandResponse), DomainDNSSetHostsResult)
                        ELSE None
    IN IF IsSome(result_value) THEN [kind |-> "Ok", value |-> Unwrap(result_value)]
       ELSE [kind |-> "Err"]

\* set_hosts.rs:92-282; get_events and set_events are what the reader
\* delivers for the two responses
domains_dns_set_hosts(client, sld, tld, new_hosts, get_events, set_events) ==
    LET existing_hosts == domains_dns_get_hosts(get_events) IN
    IF existing_hosts.kind = "Err" THEN [kind |-> "Err", posted |-> None]
    ELSE LET combined == combined_hosts(existing_hosts.value, new_hosts) IN
         IF unwrap_panics(combined) THEN [kind |-> "panic", posted |-> None]
         ELSE [kind |-> set_hosts_result(set_events).kind,
               posted |-> Some([url |-> set_hosts_url(client, sld, tld),
                                hosts |-> hosts_xml(combined)])]

(***************************************************************************)
(* SpecSetHosts: domains_dns_set_hosts for up to MaxHosts existing records *)
(* and up to MaxHosts new ones.                                            *)
(***************************************************************************)
MaxHosts == 2

\* The attribute lists a host element of a getHosts response comes with
HostAttributes ==
    {<<<<<<"H","o","s","t","I","d">>, <<"1">>>>, <<<<"N","a","m","e">>, <<"@">>>>, <<<<"T","y","p","e">>, <<"A">>>>,
       <<Address, <<"1">>>>, <<MXPref, <<"1","0">>>>, <<TTL, <<"6","0">>>>>>,
     <<<<<<"H","o","s","t","I","d">>, <<"2">>>>, <<<<"N","a","m","e">>, <<"w">>>>, <<<<"T","y","p","e">>, <<"C">>>>,
       <<Address, <<"2">>>>, <<MXPref, <<"1","0">>>>, <<TTL, <<"9","0">>>>>>}

HostRequests ==
    {[host_name |-> <<"m">>, record_type |-> <<"A">>, address |-> <<"3">>,
      mx_pref |-> None, email_type |-> None, ttl |-> Some(<<"3","0">>),
      flag |-> None, tag |-> None],
     [host_name |-> <<"n">>, record_type |-> <<"T">>, address |-> <<"4">>,
      mx_pref |-> Some(<<"1","0">>), email_type |-> None, ttl |-> None,
      flag |-> None, tag |-> None]}

RECURSIVE HostElements(_)
HostElements(hosts) ==
    IF hosts = <<>> THEN <<>>
    ELSE <<StartEv(host, Head(hosts)), EndEv(host)>> \o HostElements(Tail(hosts))

\* The events of a getHosts response document
GetHostsResponse(hosts) ==
    <<StartEv(ApiResponse, <<>>), StartEv(CommandResponse, <<>>),
      StartEv(DomainDNSGetHostsResult, <<>>)>>
      \o HostElements(hosts)
      \o <<EndEv(DomainDNSGetHostsResult), EndEv(CommandResponse), EndEv(ApiResponse)>>

\* The events of a setHosts response document, and of an error document
SetHostsResponses ==
    {<<StartEv(ApiResponse, <<>>), StartEv(CommandResponse, <<>>),
       StartEv(DomainDNSSetHostsResult, <<<<<<"I","s","S","u","c","c","e","s","s">>, true>>>>),
       EndEv(DomainDNSSetHostsResult), EndEv(CommandResponse), EndEv(ApiResponse)>>,
     <<StartEv(ApiResponse, <<>>), EndEv(ApiResponse)>>}

InitSetHosts ==
    /\ BuilderIdle
    /\ pc = "call"
    /\ args \in [client : {NameCheapClient_new(TRUE)},
                 sld : {"example"}, tld : {"com"},
                 existing : StringsUpTo(HostAttributes, MaxHosts),
                 new_hosts : StringsUpTo(HostRequests, MaxHosts),
                 set_response : SetHostsResponses]
    /\ ret = None

CallDomainsDnsSetHosts ==
    /\ pc = "call"
    /\ ret' = domains_dns_set_hosts(args.client, args.sld, args.tld, args.new_hosts,
                                    GetHostsResponse(args.existing), args.set_response)
    /\ pc' = IF ret'.kind = "panic" THEN "panicked"
             ELSE IF ret'.posted = None THEN "failed" ELSE "posted"
    /\ UNCHANGED <<builderVars, args>>

NextSetHosts == CallDomainsDnsSetHosts

SpecSetHosts == InitSetHosts /\ [][NextSetHosts]_vars

(***************************************************************************)
(* Claims about the tree builder (Spec).                                   *)
(***************************************************************************)
\* The normalized keys of an attribute list.
AttrKeys(attributes) ==
    {convert_camel_to_snake(attributes[i][1]) : i \in 1..Len(attributes)}

\* The value of the last attribute of the list whose normalized key is n.
LastAttrValue(attributes, n) ==
    LET idx == {i \in 1..Len(attributes) : convert_camel_to_snake(attributes[i][1]) = n}
        j == CHOOSE i \in idx : \A i2 \in idx : i2 <= i
    IN attributes[j][2]

\* The Objects of the closed children named n, in closing order.
RECURSIVE KidsNamed(_, _)
KidsNamed(kids, n) ==
    IF kids = <<>> THEN <<>>
    ELSE IF Head(kids).name = n
         THEN <<Head(kids).obj>> \o KidsNamed(Tail(kids), n)
         ELSE KidsNamed(Tail(kids), n)

\* Every element with its Object and history: the open frames, and the element
\* the last event closed.
Elements ==
    {[obj |-> stack[i].obj, h |-> hist[i]] : i \in 1..Len(stack)}
      \cup (IF last.closed THEN {[obj |-> last.obj, h |-> last.h]} ELSE {})

\* C1: under a parent with no attribute whose normalized key equals n, after k
\* children named n were closed the parent holds under n the child's bare Object
\* when k = 1 and the Array of the k Objects in closing order when k >= 2.
C1_Repetition ==
    \A e \in Elements : \A n \in ElemNames :
        n \notin AttrKeys(e.h.attrs) =>
            LET ks == KidsNamed(e.h.kids, n) IN
            /\ Len(ks) = 1 => (n \in DOMAIN e.obj /\ e.obj[n] = ks[1])
            /\ Len(ks) >= 2 => (n \in DOMAIN e.obj /\ e.obj[n] = Arr(ks))

C1_Witness ==
    \E i \in 1..Len(stack) : \E n \in ElemNames :
        LET ks == KidsNamed(hist[i].kids, n) IN
        /\ n \notin AttrKeys(hist[i].attrs)
        /\ Len(ks) = 3
        /\ ks[1] # ks[2]
        /\ stack[i].obj[n] = Arr(ks)

\* C2 (as stated): when an element is closed its "$text" is the trimmed
\* concatenation of all character events delivered to it while it was open,
\* text before or between its children included.
C2_AllText ==
    last.closed =>
        LET t == trim(last.h.text) IN
        IF t # <<>>
        THEN TEXT \in DOMAIN last.obj /\ last.obj[TEXT] = Str(t)
        ELSE TEXT \notin DOMAIN last.obj

KidNames(kids) == {kids[i].name : i \in 1..Len(kids)}

NoRepeatedKids(kids) ==
    \A i, j \in 1..Len(kids) : kids[i].name = kids[j].name => i = j

\* C11 (as stated): an element without two children of one name holds, when it
\* is closed, every one of its attribute values under the attribute's
\* normalized key, its non-whitespace text under "$text", each child's Object
\* under the child's name, and nothing else.
C11_NoLossNoDup ==
    (last.closed /\ NoRepeatedKids(last.h.kids)) =>
        LET h == last.h
            t == trim(h.text)
        IN /\ \A i \in 1..Len(h.attrs) :
                LET key == convert_camel_to_snake(h.attrs[i][1]) IN
                key \in DOMAIN last.obj /\ last.obj[key] = Str(h.attrs[i][2])
           /\ t # <<>> => (TEXT \in DOMAIN last.obj /\ last.obj[TEXT] = Str(t))
           /\ \A i \in 1..Len(h.kids) :
                h.kids[i].name \in DOMAIN last.obj
                    /\ last.obj[h.kids[i].name] = h.kids[i].obj
           /\ DOMAIN last.obj =
                AttrKeys(h.attrs) \cup KidNames(h.kids)
                    \cup (IF t # <<>> THEN {TEXT} ELSE {})

\* C12: a successful result is an Object with exactly one key, the name of the
\* element that was started first, and the value under it is that element's
\* Object: it holds the element's attributes and children.
C12_SingleRootKey ==
    pc = "ok" =>
        /\ last.closed
        /\ last.h.ord = 1
        /\ IsSome(result)
        /\ Unwrap(result).t = "obj"
        /\ DOMAIN Unwrap(result).v = {last.h.name}
        /\ LET root == Unwrap(result).v[last.h.name] IN
           /\ root.t = "obj"
           /\ root = last.val
           /\ DOMAIN root.v \ {TEXT} = AttrKeys(last.h.attrs) \cup KidNames(last.h.kids)

C12_Witness ==
    /\ pc = "ok"
    /\ last.h.name = <<"b">>
    /\ Len(last.h.kids) = 2
    /\ last.h.attrs # <<>>
    /\ DOMAIN Unwrap(result).v = {<<"b">>}

\* What an element without attributes and children becomes.
LeafObject(text) ==
    IF trim(text) # <<>> THEN Obj(MapInsert(EmptyMap, TEXT, Str(trim(text))))
    ELSE Obj(EmptyMap)

Consumed == Len(args.events) - Len(reader)

\* Read off the stream alone: the position of the first event that is an error
\* or an end-element closing the outermost open element; 0 when there is none.
RECURSIVE StopIndex(_, _, _)
StopIndex(events, i, depth) ==
    IF i > Len(events) THEN 0
    ELSE CASE events[i].kind = "error" -> i
           [] events[i].kind = "start" -> StopIndex(events, i + 1, depth + 1)
           [] events[i].kind = "end" ->
                IF depth = 1 THEN i
                ELSE StopIndex(events, i + 1, IF depth = 0 THEN 0 ELSE depth - 1)
           [] OTHER -> StopIndex(events, i + 1, depth)

RefOutcome(events) ==
    LET i == StopIndex(events, 1, 0) IN
    IF i = 0 THEN "eof" ELSE IF events[i].kind = "error" THEN "malformed" ELSE "ok"

\* C14: when the stream has ended and the function is still in its loop (frames
\* are open, or no element was ever started), its next step returns the
\* unexpected-end error and no tree.
C14_EofError ==
    [][(pc = "run" /\ reader = <<>>) => (pc' = "eof" /\ result' = None)]_vars

C14_Witness ==
    /\ pc = "eof"
    /\ result = None
    /\ Len(args.events) = 2
    /\ args.events[1].kind = "start"
    /\ args.events[2].kind = "chars"

\* C15: an error event read inside the loop makes the function return an error
\* and no tree; afterwards no event is read and the outcome does not change.
C15_ErrorStops ==
    [][/\ (pc = "run" /\ reader # <<>> /\ Head(reader).kind = "error") =>
              (pc' = "malformed" /\ result' = None /\ reader' = Tail(reader))
       /\ pc = "malformed" => UNCHANGED <<pc, result, reader>>]_vars

C15_Witness ==
    /\ pc = "malformed"
    /\ result = None
    /\ args.events[1].kind = "start"
    /\ args.events[2].kind = "error"
    /\ reader # <<>>

\* C16: on every finite stream the function ends with the one outcome the
\* stream determines; a tree is present exactly with the successful outcome,
\* and no tree is present at any earlier point.
C16_OneOutcome ==
    /\ [](IsSome(result) => pc = "ok")
    /\ <>[](/\ pc = RefOutcome(args.events)
            /\ IsSome(result) <=> pc = "ok")

C16_Witness ==
    /\ pc = "ok"
    /\ IsSome(result)
    /\ args.events[1].kind = "end"
    /\ args.events[2].kind = "start"

\* C17: the end-element event that empties the stack makes the function return
\* {name: Object}, the Object holding what the root frame held; afterwards no
\* event is read and the result does not change, whatever follows in the stream.
C17_ReturnAtRootEnd ==
    [][/\ (pc = "run" /\ reader # <<>> /\ Head(reader).kind = "end" /\ Len(stack) = 1) =>
              /\ pc' = "ok"
              /\ reader' = Tail(reader)
              /\ IsSome(result')
              /\ Unwrap(result').t = "obj"
              /\ DOMAIN Unwrap(result').v = {Head(reader).name}
              /\ LET root == Unwrap(result').v[Head(reader).name] IN
                 /\ root.t = "obj"
                 /\ \A k \in DOMAIN stack[1].obj \ {TEXT} :
                        k \in DOMAIN root.v /\ root.v[k] = stack[1].obj[k]
       /\ pc = "ok" => UNCHANGED <<pc, result, reader>>]_vars

C17_Witness ==
    /\ pc = "ok"
    /\ IsSome(result)
    /\ reader # <<>>
    /\ Head(reader).kind = "error"

\* C18 (as stated): when a tree is returned every event of the stream has been
\* read.
C18_AllConsumed == pc = "ok" => reader = <<>>

\* C18 (amended): a tree is returned only when the end-element event closing the
\* root has been read: at that moment exactly the events up to and including
\* that one have been read, the events after it are unread, and no tree is
\* present before.
C18_ConsumedToRootEnd ==
    /\ IsSome(result) => pc = "ok"
    /\ pc = "ok" =>
          /\ Consumed = StopIndex(args.events, 1, 0)
          /\ args.events[Consumed].kind = "end"
          /\ reader = SubSeq(args.events, Consumed + 1, Len(args.events))

C18_Witness ==
    /\ pc = "ok"
    /\ IsSome(result)
    /\ Consumed = 2
    /\ Len(reader) = 2

(***************************************************************************)
(* Claims about concurrent invocations (SpecPair).                         *)
(***************************************************************************)
\* The locals of an invocation that runs alone, after n steps of its loop.
RECURSIVE RunAlone(_, _)
RunAlone(events, n) ==
    IF n = 0 THEN InitLocals
    ELSE LET prev == RunAlone(events, n - 1) IN
         IF prev.pc # "run" THEN prev
         ELSE IF n <= Len(events) THEN on_event(prev, events[n])
         ELSE on_eof(prev)

\* The steps invocation i has taken: the events it read, and the step that
\* found the stream at its end.
StepsTaken(i) ==
    Len(args.events[i]) - Len(reader[i]) + (IF pc[i] = "eof" THEN 1 ELSE 0)

\* C19: however the steps of two invocations are interleaved, each invocation's
\* stack, text buffer, control point and result are at every moment those of
\* the same invocation running alone for as many steps.
C19_Independent ==
    \A i \in Invocations :
        LocalsOf(i) = RunAlone(args.events[i], StepsTaken(i))

C19_Witness ==
    /\ pc[1] = "ok"
    /\ result[1] = Some(Obj(MapInsert(EmptyMap, <<"a">>,
                                      Obj(MapInsert(EmptyMap, TEXT, Str(<<"x">>))))))
    /\ pc[2] = "run"
    /\ Len(stack[2]) = 1
    /\ current_text[2] = <<"x">>
    /\ Len(reader[2]) = 1

(***************************************************************************)
(* Claims about the environment a request goes to (SpecClient).            *)
(***************************************************************************)
\* C21 (as stated): every request of a client whose production flag is false,
\* the POST of domains_dns_set_hosts included, goes to the sandbox host, and
\* every request of a client whose flag is true goes to the production host.
C21_EnvironmentByFlag ==
    pc \in {"sent", "posted"} =>
        ret.base = IF args.client.production THEN "https://api.namecheap.com"
                   ELSE "https://api.sandbox.namecheap.com"

(***************************************************************************)
(* Claims about single steps of the tree builder (SpecStream).             *)
(***************************************************************************)
\* The loop is about to read a start-element / an end-element that pops a frame.
ReadsStart == pc = "run" /\ reader # <<>> /\ Head(reader).kind = "start"

ReadsEnd == pc = "run" /\ reader # <<>> /\ Head(reader).kind = "end" /\ stack # <<>>

\* {"a": {"id": "5", "b": {"$text": "x"}}}
IdDocumentTree ==
    Obj(MapInsert(EmptyMap, <<"a">>,
        Obj(MapInsert(MapInsert(EmptyMap, id, Str(<<"5">>)), <<"b">>,
            Obj(MapInsert(EmptyMap, TEXT, Str(<<"x">>)))))))

RECURSIVE OpenElements(_, _)
OpenElements(events, n) ==
    IF n = 0 THEN <<>>
    ELSE LET open == OpenElements(events, n - 1)
             e == events[n]
         IN IF e.kind = "start" THEN Append(open, n)
            ELSE IF e.kind = "end" /\ open # <<>>
                 THEN SubSeq(open, 1, Len(open) - 1)
                 ELSE open

\* The start-element event that opened the frame on top of the stack
Opener == args.events[OpenElements(args.events, Consumed)[Len(stack)]]

\* The Value an end-element step gives the element it closes: the root's is
\* in the returned document, another's is what its parent holds under its
\* name, as the last member where the name was already there. (Action level.)
ClosedValue ==
    LET top == stack[Len(stack)] IN
    IF Len(stack) = 1
    THEN Unwrap(result').v[Head(reader).name]
    ELSE LET merged == stack'[Len(stack')].obj[top.name] IN
         IF top.name \in DOMAIN stack[Len(stack) - 1].obj
         THEN merged.v[Len(merged.v)]
         ELSE merged

RECURSIVE ProperlyNested(_, _)
ProperlyNested(events, n) ==
    \/ n = 0
    \/ /\ ProperlyNested(events, n - 1)
       /\ LET open == OpenElements(events, n - 1)
              e == events[n]
          IN /\ e.kind # "error"
             /\ e.kind = "end" =>
                   /\ open # <<>>
                   /\ events[open[Len(open)]].name = e.name

\* How many of the first n events are of the kind
CountKind(events, n, kind) == Cardinality({i \in 1..n : events[i].kind = kind})

\* C24: on properly nested input, after any prefix the stack depth is the
\* number of start-elements minus the number of end-elements seen; the stack
\* is empty only before the first start-element and after the end-element
\* closing the root; every frame a start-element pushes is popped once, by
\* its matching end-element, last in first out, and is merged into the frame
\* directly below it and into no other.
C24_FrameLifecycle ==
    /\ [](ProperlyNested(args.events, Consumed) =>
            LET starts == CountKind(args.events, Consumed, "start")
                ends == CountKind(args.events, Consumed, "end")
                open == OpenElements(args.events, Consumed)
            IN /\ pc = "run" =>
                    /\ Len(stack) = starts - ends
                    /\ stack = <<>> <=> starts = 0
                    /\ \A d \in 1..Len(stack) : stack[d].name = args.events[open[d]].name
               /\ pc = "ok" => starts > 0 /\ starts = ends /\ stack = <<>>
               /\ pc = "eof" => starts > ends \/ starts = 0
               /\ pc # "malformed")
    /\ [][(pc = "run" /\ reader # <<>> /\ ProperlyNested(args.events, Consumed + 1)) =>
            LET e == Head(reader)
                depth == Len(stack)
            IN /\ e.kind = "start" =>
                    Len(stack') = depth + 1 /\ SubSeq(stack', 1, depth) = stack
               /\ e.kind \notin {"start", "end"} => stack' = stack
               /\ e.kind = "end" =>
                    /\ stack[depth].name = e.name
                    /\ Len(stack') = depth - 1
                    /\ depth >= 2 =>
                         /\ SubSeq(stack', 1, depth - 2) = SubSeq(stack, 1, depth - 2)
                         /\ stack'[depth - 1].name = stack[depth - 1].name
                         /\ stack'[depth - 1].obj =
                                merge_child(stack[depth - 1].obj, e.name,
                                            element_value(stack[depth].obj, current_text))
                    /\ depth = 1 => pc' = "ok"]_vars

C24_Witness ==
    /\ pc = "run"
    /\ Consumed = 4
    /\ ProperlyNested(args.events, Consumed)
    /\ Len(stack) = 2
    /\ stack[1].obj = EmptyMap
    /\ <<"a">> \in DOMAIN stack[2].obj


(***************************************************************************)
(* More claims about the accessors (SpecAccess).                           *)
(***************************************************************************)
\* The number a string of decimal digits denotes, with no limit of width
RECURSIVE DecimalValue(_)
DecimalValue(s) ==
    IF s = <<>> THEN 0
    ELSE 10 * DecimalValue(SubSeq(s, 1, Len(s) - 1)) + DigitVal[s[Len(s)]]

\* s is a base-10 signed integer of the i64 width: an optional sign, one or
\* more digits, and a value within the range.
ValidI64(s) ==
    LET signed == s # <<>> /\ Head(s) \in {"+", "-"}
        digits == IF signed THEN Tail(s) ELSE s
    IN /\ digits # <<>>
       /\ \A i \in 1..Len(digits) : digits[i] \in Digits
       /\ InI64(IF signed /\ Head(s) = "-" THEN -DecimalValue(digits)
                ELSE DecimalValue(digits))

\* The plain string node[key], if that is what the call's node holds
PlainStringAtKey ==
    LET o == ValueGet(args.json, args.key) IN
    IF IsSome(o) THEN as_str(Unwrap(o)) ELSE None

\* C25: parse_i64(node, key, default) returns the caller's default whenever
\* node[key] is a plain string that is not a valid base-10 signed integer of
\* the i64 width (non-numeric, empty, or out of range); it returns 0 in that
\* case only if default is 0.
C25_InvalidGivesDefault ==
    (/\ pc = "parse_i64"
     /\ IsSome(PlainStringAtKey)
     /\ ~ValidI64(Unwrap(PlainStringAtKey)))
        => /\ ret = args.default_i64
           /\ ret = 0 => args.default_i64 = 0

\* A string of digits only that is out of range, and a default that is not 0
C25_Witness ==
    /\ pc = "parse_i64"
    /\ IsSome(PlainStringAtKey)
    /\ Unwrap(PlainStringAtKey) # <<>>
    /\ \A i \in 1..Len(Unwrap(PlainStringAtKey)) : Unwrap(PlainStringAtKey)[i] \in Digits
    /\ ~ValidI64(Unwrap(PlainStringAtKey))
    /\ args.default_i64 = 5
    /\ ret = 5


(***************************************************************************)
(* More claims about the tree builder on finite event streams (SpecStream).*)
(***************************************************************************)
\* Every Value a tree holds under a key "$text", at any depth
RECURSIVE TextValues(_)
TextValues(value) ==
    CASE value.t = "obj" ->
            {value.v[k] : k \in DOMAIN value.v \cap {TEXT}}
              \cup UNION {TextValues(value.v[k]) : k \in DOMAIN value.v}
      [] value.t = "arr" -> UNION {TextValues(value.v[i]) : i \in 1..Len(value.v)}
      [] OTHER -> {}

\* A string that is not empty and neither starts nor ends with whitespace
Trimmed(s) == s # <<>> /\ ~is_whitespace(s[1]) /\ ~is_whitespace(s[Len(s)])

\* No element or attribute of the stream is itself named "$text"
NoTextNames(events) ==
    \A i \in 1..Len(events) :
        /\ events[i].name # TEXT
        /\ TEXT \notin AttrKeys(events[i].attributes)

\* C26: in every returned tree every "$text" the builder wrote is a non-empty
\* string without leading or trailing whitespace; an element whose collected
\* text is empty or all whitespace gets no "$text" key, so with no attributes
\* and no children it is the empty Object {}.
C26_TextTrimmed ==
    /\ []((pc = "ok" /\ NoTextNames(args.events)) =>
            \A v \in TextValues(Unwrap(result)) : v.t = "str" /\ Trimmed(v.v))
    /\ [][ReadsEnd =>
            LET top == stack[Len(stack)] IN
            IF \A i \in 1..Len(current_text) : is_whitespace(current_text[i])
            THEN /\ ClosedValue = Obj(top.obj)
                 /\ top.obj = EmptyMap => ClosedValue = Obj(EmptyMap)
            ELSE /\ ClosedValue.t = "obj"
                 /\ TEXT \in DOMAIN ClosedValue.v
                 /\ ClosedValue.v[TEXT].t = "str"
                 /\ Trimmed(ClosedValue.v[TEXT].v)]_vars

C26_Witness ==
    /\ args.events = <<StartEv(<<"a">>, <<>>), CharsEv(<<" ">>), EndEv(<<"a">>)>>
    /\ pc = "ok"
    /\ result = Some(Obj(MapInsert(EmptyMap, <<"a">>, Obj(EmptyMap))))


\* The texts of the character events among the first n events that came
\* after the most recent start-element or end-element, concatenated.
RECURSIVE TailText(_, _)
TailText(events, n) ==
    IF n = 0 THEN <<>>
    ELSE CASE events[n].kind = "chars" -> TailText(events, n - 1) \o events[n].text
           [] events[n].kind \in {"start", "end"} -> <<>>
           [] OTHER -> TailText(events, n - 1)

\* {"a": {"b": {"$text": "y z"}, "$text": "w"}}
TextAroundChildTree ==
    Obj(MapInsert(EmptyMap, <<"a">>,
        Obj(MapInsert(MapInsert(EmptyMap, <<"b">>,
                Obj(MapInsert(EmptyMap, TEXT, Str(<<"y"," ","z">>)))),
            TEXT, Str(<<"w">>)))))

\* C29: the pending-text buffer is empty right after every start-element and
\* every end-element, so the "$text" an element gets at its end-element is
\* the trimmed concatenation of the character events since the most recent
\* start-element or end-element of any element; a child's text never appears
\* in its parent's "$text".
C29_SharedTextBuffer ==
    /\ [](pc = "run" => current_text = TailText(args.events, Consumed))
    /\ [](pc = "ok" /\ args.events = TextAroundChildStream
            => result = Some(TextAroundChildTree))
    /\ [][/\ (pc = "run" /\ reader # <<>> /\ Head(reader).kind \in {"start", "end"}
                /\ pc' = "run") => current_text' = <<>>
          /\ ReadsEnd =>
                LET since == trim(TailText(args.events, Consumed)) IN
                IF since # <<>>
                THEN ClosedValue.v[TEXT] = Str(since)
                ELSE ClosedValue = Obj(stack[Len(stack)].obj)]_vars

C29_Witness ==
    /\ args.events = TextAroundChildStream
    /\ pc = "ok"
    /\ result = Some(TextAroundChildTree)


\* {"a": {"first_name": "2"}}
FirstNameTree ==
    Obj(MapInsert(EmptyMap, <<"a">>,
        Obj(MapInsert(EmptyMap, first_name, Str(<<"2">>)))))

\* C30: when two attributes of one element have different names that
\* normalize to the same key (as "FirstName" and "first_name" do), the
\* element's Object holds one entry under that key, whose value is that of
\* the attribute coming last; the earlier value is not kept and no Array is
\* formed.
C30_LastAttributeWins ==
    /\ [](pc = "ok" /\ args.events = FirstNameDocument => result = Some(FirstNameTree))
    /\ [][ReadsStart =>
            LET attributes == Head(reader).attributes
                obj == stack'[Len(stack')].obj
            IN \A i, j \in 1..Len(attributes) :
                 (/\ i < j
                  /\ attributes[i][1] # attributes[j][1]
                  /\ convert_camel_to_snake(attributes[i][1])
                       = convert_camel_to_snake(attributes[j][1])
                  /\ \A l \in (j + 1)..Len(attributes) :
                       convert_camel_to_snake(attributes[l][1])
                         # convert_camel_to_snake(attributes[j][1]))
                 => LET key == convert_camel_to_snake(attributes[j][1]) IN
                    /\ key \in DOMAIN obj
                    /\ obj[key] = Str(attributes[j][2])
                    /\ Cardinality(DOMAIN obj) < Len(attributes)]_vars

C30_Witness ==
    /\ args.events = FirstNameDocument
    /\ pc = "run"
    /\ Len(stack) = 1
    /\ stack[1].obj = MapInsert(EmptyMap, first_name, Str(<<"2">>))


(***************************************************************************)
(* Claims about domains_get_list (SpecGetList).                            *)
(***************************************************************************)
\* The value of an attribute of an attribute list, "" where it has none
AttributeOr(attributes, name, default) ==
    IF \E i \in 1..Len(attributes) : attributes[i][1] = name
    THEN attributes[CHOOSE i \in 1..Len(attributes) : attributes[i][1] = name][2]
    ELSE default

\* C27 (as stated): for every getList response whose DomainGetListResult has
\* n >= 1 Domain elements, n = 1 included, the returned "domains" list has n
\* entries, one per Domain element in response order, and the returned
\* pagination is the one computed from the response's Paging block.
C27_AllDomainsListed ==
    (pc = "returned" /\ Len(args.domains) >= 1) =>
        /\ ret.value.kind = "Ok"
        /\ Len(ret.value.domains) = Len(args.domains)
        /\ \A i \in 1..Len(args.domains) :
              ret.value.domains[i].name
                 = AttributeOr(args.domains[i], <<"N","a","m","e">>, <<>>)
        /\ args.paging # None =>
              /\ str_parse_i64(Unwrap(args.paging).cp)
                    = Some(ret.value.pagination.currentPage)
              /\ LET ti == Unwrap(str_parse_i64(Unwrap(args.paging).ti))
                     ps == Unwrap(str_parse_i64(Unwrap(args.paging).ps))
                 IN /\ ret.value.pagination.totalPages * ps >= ti
                    /\ (ret.value.pagination.totalPages - 1) * ps < ti


(***************************************************************************)
(* Claims about domains_dns_set_hosts (SpecSetHosts).                      *)
(***************************************************************************)
\* C28 (as stated): for every number m >= 1 of existing host elements that
\* getHosts returns, m = 1 included, each existing record appears in the
\* submitted host list before all new records, with the name, record type,
\* address and TTL it had in the getHosts response; no existing record is
\* dropped or blanked.
C28_ExistingHostsKept ==
    (pc = "posted" /\ Len(args.existing) >= 1) =>
        LET m == Len(args.existing)
            submitted == Unwrap(ret.posted).hosts
        IN /\ Len(submitted) = m + Len(args.new_hosts)
           /\ \A i \in 1..m :
                /\ submitted[i].Name = AttributeOr(args.existing[i], <<"N","a","m","e">>, <<>>)
                /\ submitted[i].Type = AttributeOr(args.existing[i], <<"T","y","p","e">>, <<>>)
                /\ submitted[i].Address = AttributeOr(args.existing[i], Address, <<>>)
                /\ submitted[i].TTL = AttributeOr(args.existing[i], TTL, <<>>)
           /\ \A j \in 1..Len(args.new_hosts) :
                submitted[m + j].Name = args.new_hosts[j].host_name

====
